---------------------------- MODULE Spec2Model ----------------------------
(***************************************************************************)
(* The CHIP-8 machine of crunch (src/src/lib.rs): Chip8::new builds the    *)
(* machine from a ROM image, and every call of advance fetches, decodes    *)
(* and executes one instruction.  The frame loop of src/src/main.rs calls  *)
(* advance once per frame with the keyboard state of that frame.           *)
(***************************************************************************)
EXTENDS Integers, Sequences, FiniteSets, TLC

\* ------------------------------------------------------------------------
\* Program constants
\* ------------------------------------------------------------------------
SCREEN_WIDTH == 64
SCREEN_HEIGHT == 32
ROM_START == 512
FONT_START == 80
\* Memory(Box<[u8; 4096]>)
MEMORY_SIZE == 4096
\* the number of values of a u8 and of a u16
U8 == 256
U16 == 65536

\* ------------------------------------------------------------------------
\* Bounds of the model
\* ------------------------------------------------------------------------
\* The number of advance calls one run of the frame loop is followed for.
MaxSteps == 490

\* ------------------------------------------------------------------------
\* Bit arithmetic on unsigned integers (Rust's &, |, ^ on u8 and u16)
\* ------------------------------------------------------------------------
RECURSIVE BitAnd(_, _)
BitAnd(a, b) ==
    IF a = 0 \/ b = 0 THEN 0
    ELSE (a % 2) * (b % 2) + 2 * BitAnd(a \div 2, b \div 2)

RECURSIVE BitOr(_, _)
BitOr(a, b) ==
    IF a = 0 THEN b
    ELSE IF b = 0 THEN a
    ELSE (IF a % 2 = 1 \/ b % 2 = 1 THEN 1 ELSE 0) + 2 * BitOr(a \div 2, b \div 2)

RECURSIVE BitXor(_, _)
BitXor(a, b) ==
    IF a = 0 THEN b
    ELSE IF b = 0 THEN a
    ELSE ((a + b) % 2) + 2 * BitXor(a \div 2, b \div 2)

RECURSIVE Pow2(_)
Pow2(k) == IF k = 0 THEN 1 ELSE 2 * Pow2(k - 1)

\* ------------------------------------------------------------------------
\* Memory
\* ------------------------------------------------------------------------
font ==
    << 240, 144, 144, 144, 240,
        32,  96,  32,  32, 112,
       240,  16, 240, 128, 240,
       240,  16, 240,  16, 240,
       144, 144, 240,  16,  16,
       240, 128, 240,  16, 240,
       240, 128, 240, 144, 240,
       240,  16,  32,  64,  64,
       240, 144, 240, 144, 240,
       240, 144, 240,  16, 240,
       240, 144, 240, 144, 144,
       224, 144, 224, 144, 224,
       240, 128, 128, 128, 240,
       224, 144, 144, 144, 224,
       240, 128, 240, 128, 240,
       240, 128, 240, 128, 128 >>

\* Memory::new: a zeroed buffer with the font copied to FONT_START.
MemoryNew ==
    [a \in 0..(MEMORY_SIZE - 1) |->
        IF a >= FONT_START /\ a < FONT_START + Len(font)
        THEN font[a - FONT_START + 1] ELSE 0]

\* The index of Memory::get and Memory::set is inside the boxed array.
MemoryInRange(idx) == idx >= 0 /\ idx < MEMORY_SIZE

\* ------------------------------------------------------------------------
\* Display: Box<[[bool; 64]; 32]>, indexed [y][x]
\* ------------------------------------------------------------------------
DisplayNew == [y \in 0..(SCREEN_HEIGHT - 1) |-> [x \in 0..(SCREEN_WIDTH - 1) |-> FALSE]]

DisplayClear(d) == [y \in DOMAIN d |-> [x \in DOMAIN d[y] |-> FALSE]]

\* self.0[y as usize][x as usize] is inside both arrays.
PixelInRange(x, y) == y >= 0 /\ y < SCREEN_HEIGHT /\ x >= 0 /\ x < SCREEN_WIDTH

get_pixel(d, x, y) == d[y][x]

\* ------------------------------------------------------------------------
\* CPU
\* ------------------------------------------------------------------------
register(c, index) == c.registers[index]

set_register(c, index, value) == [c EXCEPT !.registers[index] = value]

\* The CPU that Chip8::new builds.
CpuNew ==
    [ delay_timer |-> 0,
      sound_timer |-> 0,
      stack |-> << >>,
      program_counter |-> ROM_START,
      index_register |-> 0,
      registers |-> [r \in 0..15 |-> 0] ]

\* Chip8::new: the ROM is copied to ROM_START of a new memory.
RomFits(rom) == ROM_START + Len(rom) <= MEMORY_SIZE

Chip8Memory(rom) ==
    [a \in 0..(MEMORY_SIZE - 1) |->
        IF a >= ROM_START /\ a < ROM_START + Len(rom)
        THEN rom[a - ROM_START + 1] ELSE MemoryNew[a]]

\* ------------------------------------------------------------------------
\* State
\* ------------------------------------------------------------------------
VARIABLES
    cpu,              \* Chip8.cpu: the CPU struct
    display,          \* Chip8.display
    memory,           \* Chip8.memory
    status,           \* "running", or "panicked" once a step has panicked
    overflow_checks,  \* the build: TRUE when integer overflow panics (debug
                      \* profile), FALSE when it wraps (release profile)
    instr,            \* the instruction the last step fetched (NoInstr: none)
    keys,             \* the keyboard state the frame loop took for the last step
    old,              \* cpu, display and memory before the last step
    older,            \* cpu and display before the step before it, and that step's instr
    steps             \* the number of steps taken

vars == << cpu, display, memory, status, overflow_checks, instr, keys, old, older, steps >>

\* a value that no 16-bit instruction has
NoInstr == U16

\* ------------------------------------------------------------------------
\* advance: operators on the machine s = [cpu, display, memory, status]
\* ------------------------------------------------------------------------
Panic(s) == [s EXCEPT !.status = "panicked"]

\* A u16 sum v: whether it panics in this build, and the value it has otherwise.
Overflows(v) == overflow_checks /\ v >= U16

Wrap(v) == v % U16

\* (instr & 0x0F00) >> 8, (instr & 0x00F0) >> 4, instr & 0x000F, instr & 0x00FF,
\* instr & 0x0FFF
OpX(i) == (i \div 256) % 16

OpY(i) == (i \div 16) % 16

OpN(i) == i % 16

OpNN(i) == i % 256

OpNNN(i) == i % 4096

\* Both bytes of the instruction can be read: memory.get(pc), memory.get(pc + 1).
FetchInRange(c) ==
    /\ MemoryInRange(c.program_counter)
    /\ MemoryInRange(c.program_counter + 1)

Fetched(c, mem) == mem[c.program_counter] * 256 + mem[c.program_counter + 1]

\* The decrement without its test of the timer being above 0.
TickTimersUnguarded(c) ==
    [c EXCEPT !.delay_timer = (@ + U8 - 1) % U8,
              !.sound_timer = (@ + U8 - 1) % U8]

\* The timers are decremented right after the fetch, before the match.
TickTimers(c) ==
    [c EXCEPT !.delay_timer = IF @ > 0 THEN @ - 1 ELSE @,
              !.sound_timer = IF @ > 0 THEN @ - 1 ELSE @]

\* A skip that moves the program counter by one byte.
SkipOne(s, cond) ==
    IF ~cond THEN s
    ELSE IF Overflows(s.cpu.program_counter + 1) THEN Panic(s)
    ELSE [s EXCEPT !.cpu.program_counter = Wrap(@ + 1)]

\* cpu.program_counter += 2 of the skip instructions
Skip(s, cond) ==
    IF ~cond THEN s
    ELSE IF Overflows(s.cpu.program_counter + 2) THEN Panic(s)
    ELSE [s EXCEPT !.cpu.program_counter = Wrap(@ + 2)]

\* 00EE returning to address 0 when the stack is empty.
ExecSysLenient(s, i) ==
    CASE OpNN(i) = 224 -> [s EXCEPT !.display = DisplayClear(@)]
      [] OpNN(i) = 238 ->
            IF Len(s.cpu.stack) = 0 THEN [s EXCEPT !.cpu.program_counter = 0]
            ELSE [s EXCEPT !.cpu.program_counter = s.cpu.stack[Len(s.cpu.stack)],
                           !.cpu.stack = SubSeq(@, 1, Len(@) - 1)]
      [] OTHER -> Panic(s)

\* 00EE taking the oldest return address instead of the newest.
ExecSysOldest(s, i) ==
    CASE OpNN(i) = 224 -> [s EXCEPT !.display = DisplayClear(@)]
      [] OpNN(i) = 238 ->
            IF Len(s.cpu.stack) = 0 THEN Panic(s)
            ELSE [s EXCEPT !.cpu.program_counter = s.cpu.stack[1],
                           !.cpu.stack = SubSeq(@, 2, Len(@))]
      [] OTHER -> Panic(s)

\* 0: 00E0 clears the display, 00EE returns, anything else is unknown.
ExecSys(s, i) ==
    CASE OpNN(i) = 224 -> [s EXCEPT !.display = DisplayClear(@)]
      [] OpNN(i) = 238 ->
            IF Len(s.cpu.stack) = 0 THEN Panic(s)
            ELSE [s EXCEPT !.cpu.program_counter = s.cpu.stack[Len(s.cpu.stack)],
                           !.cpu.stack = SubSeq(@, 1, Len(@) - 1)]
      [] OTHER -> Panic(s)

\* 1NNN
ExecJump(s, i) == [s EXCEPT !.cpu.program_counter = OpNNN(i)]

\* 2NNN
ExecCall(s, i) ==
    [s EXCEPT !.cpu.stack = Append(@, s.cpu.program_counter),
              !.cpu.program_counter = OpNNN(i)]

\* 3XNN, 4XNN, 5XY_, 9XY_
ExecSkipEqImm(s, i) == Skip(s, register(s.cpu, OpX(i)) = OpNN(i))

ExecSkipNeImm(s, i) == Skip(s, register(s.cpu, OpX(i)) # OpNN(i))

ExecSkipEqReg(s, i) == Skip(s, register(s.cpu, OpX(i)) = register(s.cpu, OpY(i)))

ExecSkipNeReg(s, i) == Skip(s, register(s.cpu, OpX(i)) # register(s.cpu, OpY(i)))

\* 6XNN
ExecSetImm(s, i) == [s EXCEPT !.cpu = set_register(@, OpX(i), OpNN(i))]

\* 7XNN with the carry of the sum written to register F, as 8XY4 does.
ExecAddImmCarry(s, i) ==
    LET sum == register(s.cpu, OpX(i)) + OpNN(i)
    IN  [s EXCEPT !.cpu = set_register(set_register(@, OpX(i), sum % U8), 15,
                                       IF sum > 255 THEN 1 ELSE 0)]

\* 7XNN: the sum is taken in u16 and cast to u8
ExecAddImm(s, i) ==
    LET sum == register(s.cpu, OpX(i)) + OpNN(i)
    IN  [s EXCEPT !.cpu = set_register(@, OpX(i), sum % U8)]

\* 8XY4 with the flag written before the sum.
AluAddFlagFirst(c, r, a, b) ==
    LET result == a + b
    IN  set_register(set_register(c, 15, IF result > 255 THEN 1 ELSE 0), r, result % U8)

\* 8XY4: the sum, then the flag
AluAdd(c, r, a, b) ==
    LET result == a + b
    IN  set_register(set_register(c, r, result % U8), 15, IF result > 255 THEN 1 ELSE 0)

\* 8XY5 and 8XY7 with equal operands taken for a borrow.
AluSubStrict(c, r, a, b, n) ==
    LET result == IF n = 5 THEN a - b ELSE b - a
    IN  IF result > 0
        THEN set_register(set_register(c, r, result % U8), 15, 1)
        ELSE set_register(set_register(c, r, (256 + result) % U8), 15, 0)

\* 8XY5 (n = 5) and 8XY7 (n = 7)
AluSub(c, r, a, b, n) ==
    LET result == IF n = 5 THEN a - b ELSE b - a
    IN  IF result >= 0
        THEN set_register(set_register(c, r, result % U8), 15, 1)
        ELSE set_register(set_register(c, r, (256 + result) % U8), 15, 0)

\* 8XY6 and 8XYE
AluShr(c, r, a, b) == set_register(c, r, a \div 2)

AluShl(c, r, a, b) == set_register(c, r, (a * 2) % U8)

\* 8XY_: a is register X, b is register Y
ExecAlu(s, i) ==
    LET r == OpX(i)
        a == register(s.cpu, r)
        b == register(s.cpu, OpY(i))
        n == OpN(i)
    IN  CASE n = 0 -> [s EXCEPT !.cpu = set_register(@, r, b)]
          [] n = 1 -> [s EXCEPT !.cpu = set_register(@, r, BitOr(a, b))]
          [] n = 2 -> [s EXCEPT !.cpu = set_register(@, r, BitAnd(a, b))]
          [] n = 3 -> [s EXCEPT !.cpu = set_register(@, r, BitXor(a, b))]
          [] n = 4 -> [s EXCEPT !.cpu = AluAdd(@, r, a, b)]
          [] n = 5 \/ n = 7 -> [s EXCEPT !.cpu = AluSub(@, r, a, b, n)]
          [] n = 6 -> [s EXCEPT !.cpu = AluShr(@, r, a, b)]
          [] n = 14 -> [s EXCEPT !.cpu = AluShl(@, r, a, b)]
          [] OTHER -> Panic(s)

\* ANNN
ExecSetIndex(s, i) == [s EXCEPT !.cpu.index_register = OpNNN(i)]

\* BNNN keeping the low 12 bits of the sum.
ExecJumpOffsetMasked(s, i) ==
    [s EXCEPT !.cpu.program_counter = (register(s.cpu, 0) + OpNNN(i)) % MEMORY_SIZE]

\* BNNN: register 0 plus the offset, a u16 sum of at most 255 + 4095
ExecJumpOffset(s, i) ==
    LET pointer == register(s.cpu, 0)
        offset == OpNNN(i)
    IN  IF Overflows(pointer + offset) THEN Panic(s)
        ELSE [s EXCEPT !.cpu.program_counter = Wrap(pointer + offset)]

\* CXNN: rand_value is the byte rand::random returned
ExecRandom(s, i, rand_value) ==
    [s EXCEPT !.cpu = set_register(@, OpX(i), BitAnd(OpNN(i), rand_value))]

\* *pixel = !*pixel through display.get_pixel_mut(x, y), register F set to 1 when
\* the pixel was on.  Indexing outside the arrays panics.
TogglePixel(s, x, y) ==
    IF ~PixelInRange(x, y) THEN Panic(s)
    ELSE [s EXCEPT !.cpu = IF get_pixel(s.display, x, y) THEN set_register(@, 15, 1) ELSE @,
                   !.display[y][x] = ~@]

\* The bits the inner loop of the sprite draw visits: for bit in 0..7.
DrawBitRange == 0..6

\* The inner loop from bit on: x is the column of this bit.  The test of
\* x >= SCREEN_WIDTH after x += 1 only continues the loop.
RECURSIVE DrawBits(_, _, _, _, _)
DrawBits(s, byte, x, y, bit) ==
    IF s.status # "running" \/ bit \notin DrawBitRange THEN s
    ELSE LET is_on == BitAnd(byte, 128 \div Pow2(bit)) # 0
             s1 == IF is_on THEN TogglePixel(s, x, y) ELSE s
         IN  DrawBits(s1, byte, x + 1, y, bit + 1)

\* The outer loop from row i on: for i in 0..n, y the row of this sprite byte.  The
\* test of y >= SCREEN_HEIGHT after y += 1 only continues the loop.
RECURSIVE DrawRows(_, _, _, _, _)
DrawRows(s, x, y, n, i) ==
    IF s.status # "running" \/ i >= n THEN s
    ELSE LET addr == i + s.cpu.index_register
         IN  IF Overflows(addr) \/ ~MemoryInRange(Wrap(addr)) THEN Panic(s)
             ELSE DrawRows(DrawBits(s, s.memory[Wrap(addr)], x, y, 0), x, y + 1, n, i + 1)

\* DXYN
ExecDraw(s, i) ==
    LET x == register(s.cpu, OpX(i)) % SCREEN_WIDTH
        y == register(s.cpu, OpY(i)) % SCREEN_HEIGHT
        n == OpN(i)
    IN  DrawRows([s EXCEPT !.cpu = set_register(@, 15, 0)], x, y, n, 0)

\* EX__: "TODO: keyboard input", every instruction of the family does nothing
ExecKeySkip(s, i) == s

\* memory.set(a + b, value), a + b a u16 sum
MemorySetAt(s, a, b, value) ==
    IF s.status # "running" THEN s
    ELSE IF Overflows(a + b) \/ ~MemoryInRange(Wrap(a + b)) THEN Panic(s)
    ELSE [s EXCEPT !.memory[Wrap(a + b)] = value]

\* FX1E
ExecAddIndex(s, op) ==
    LET result == register(s.cpu, op) + s.cpu.index_register
    IN  IF Overflows(result) THEN Panic(s)
        ELSE [s EXCEPT !.cpu = [(IF Wrap(result) > 4095 THEN set_register(@, 15, 1) ELSE @)
                                    EXCEPT !.index_register = Wrap(result)]]

\* FX29: (FONT_START as u16) + (cpu.register(op) as u16) & 0x0F * 5, where * binds
\* tighter than +, and + tighter than &
ExecFontChar(s, op) ==
    [s EXCEPT !.cpu.index_register = BitAnd(FONT_START + register(s.cpu, op), 15 * 5)]

\* FX33 with the ones at the index register and the hundreds two above it.
ExecBcdReversed(s, op) ==
    LET value == register(s.cpu, op)
        I == s.cpu.index_register
        s1 == MemorySetAt(s, I, 2, (value \div 100) % 10)
        s2 == MemorySetAt(s1, I, 1, (value \div 10) % 10)
    IN  MemorySetAt(s2, I, 0, value % 10)

\* FX33: the ones, then the tens, then the hundreds
ExecBcd(s, op) ==
    LET value == register(s.cpu, op)
        I == s.cpu.index_register
        s1 == MemorySetAt(s, I, 2, value % 10)
        s2 == MemorySetAt(s1, I, 1, (value \div 10) % 10)
    IN  MemorySetAt(s2, I, 0, (value \div 100) % 10)

\* FX55 over 0..op, register op left out.
RECURSIVE ExecDumpExclusive(_, _, _)
ExecDumpExclusive(s, op, i) ==
    IF s.status # "running" \/ i >= op THEN s
    ELSE ExecDumpExclusive(MemorySetAt(s, s.cpu.index_register, i, register(s.cpu, i)),
                           op, i + 1)

\* FX55: for i in 0..=op, from register i on
RECURSIVE ExecDump(_, _, _)
ExecDump(s, op, i) ==
    IF s.status # "running" \/ i > op THEN s
    ELSE ExecDump(MemorySetAt(s, s.cpu.index_register, i, register(s.cpu, i)), op, i + 1)

\* FX65: for i in 0..=op, from register i on
RECURSIVE ExecLoad(_, _, _)
ExecLoad(s, op, i) ==
    IF s.status # "running" \/ i > op THEN s
    ELSE LET addr == s.cpu.index_register + i
         IN  IF Overflows(addr) \/ ~MemoryInRange(Wrap(addr)) THEN Panic(s)
             ELSE ExecLoad([s EXCEPT !.cpu = set_register(@, i, s.memory[Wrap(addr)])],
                           op, i + 1)

\* FX__
ExecMisc(s, i) ==
    LET op == OpX(i)
        nn == OpNN(i)
    IN  CASE nn = 7 -> [s EXCEPT !.cpu = set_register(@, op, s.cpu.delay_timer)]
          [] nn = 21 -> [s EXCEPT !.cpu.delay_timer = register(s.cpu, op)]
          [] nn = 24 -> [s EXCEPT !.cpu.sound_timer = register(s.cpu, op)]
          [] nn = 30 -> ExecAddIndex(s, op)
          [] nn = 10 -> s    \* "TODO: block and wait for key input"
          [] nn = 41 -> ExecFontChar(s, op)
          [] nn = 51 -> ExecBcd(s, op)
          [] nn = 85 -> ExecDump(s, op, 0)
          [] nn = 101 -> ExecLoad(s, op, 0)
          [] OTHER -> Panic(s)

\* The match on the first nibble.
Execute(s, i, rand_value) ==
    LET family == i \div 4096
    IN  CASE family = 0 -> ExecSys(s, i)
          [] family = 1 -> ExecJump(s, i)
          [] family = 2 -> ExecCall(s, i)
          [] family = 3 -> ExecSkipEqImm(s, i)
          [] family = 4 -> ExecSkipNeImm(s, i)
          [] family = 5 -> ExecSkipEqReg(s, i)
          [] family = 9 -> ExecSkipNeReg(s, i)
          [] family = 6 -> ExecSetImm(s, i)
          [] family = 7 -> ExecAddImm(s, i)
          [] family = 8 -> ExecAlu(s, i)
          [] family = 10 -> ExecSetIndex(s, i)
          [] family = 11 -> ExecJumpOffset(s, i)
          [] family = 12 -> ExecRandom(s, i, rand_value)
          [] family = 13 -> ExecDraw(s, i)
          [] family = 14 -> ExecKeySkip(s, i)
          [] family = 15 -> ExecMisc(s, i)

\* The CPU after the fetch: the program counter past the instruction, the timers
\* decremented.
AfterFetch(c) == TickTimers([c EXCEPT !.program_counter = Wrap(@ + 2)])

\* advance(cpu, display, memory): fetch, program counter += 2, timers, match.
advance(s, rand_value) ==
    IF ~FetchInRange(s.cpu) THEN Panic(s)
    ELSE Execute([s EXCEPT !.cpu = AfterFetch(@)], Fetched(s.cpu, s.memory), rand_value)

\* ------------------------------------------------------------------------
\* Inputs: the ROM images, the keyboard states, the random bytes
\* ------------------------------------------------------------------------
\* The instruction with the nibbles a, b, c, d, and with nibble a and address nnn.
Ins(a, b, c, d) == a * 4096 + b * 256 + c * 16 + d

InsA(a, nnn) == a * 4096 + nnn

InsX(a, x, nn) == a * 4096 + x * 256 + nn

\* The ROM image of a sequence of instructions (high byte first) and the data after it.
RomOf(code, data) ==
    [k \in 1..(2 * Len(code)) |->
        IF k % 2 = 1 THEN code[(k + 1) \div 2] \div 256 ELSE code[k \div 2] % 256] \o data

\* The address of the data of a ROM of n instructions.
DataAt(n) == ROM_START + 2 * n

\* Sprite draws: a first sprite lights pixels at (px, 0), then a sprite of n rows is
\* drawn twice at (vx, vy).
DrawRoms ==
    { RomOf(<< InsX(6, 3, 1), InsA(10, DataAt(8)), Ins(13, 3, 4, 1),
               InsX(6, 1, vx), InsX(6, 2, vy), InsA(10, DataAt(8) + 1),
               Ins(13, 1, 2, n), Ins(13, 1, 2, n) >>,
            << pb, b, 60, b >>) :
        pb \in {0, 255, 3}, vx \in {0, 56, 60, 64}, vy \in {0, 30, 33},
        n \in {0, 1, 2, 3}, b \in {255, 129, 1, 0} }

\* Two clears, then the one-row sprite 0xFF at (0, 0).
ClearDrawRoms ==
    { RomOf(<< Ins(0, 0, 14, 0), Ins(0, 0, 14, 0), InsA(10, DataAt(4)), Ins(13, 0, 0, 1) >>,
            << 255 >>) }

\* Arithmetic and logic on two registers.
AluRoms ==
    { RomOf(<< InsX(6, xy[1], a), InsX(6, xy[2], b), Ins(8, xy[1], xy[2], n) >>, << >>) :
        xy \in { <<1, 2>>, <<15, 2>>, <<1, 15>>, <<3, 3>>, <<15, 15>> },
        a \in {0, 1, 128, 200, 255}, b \in {0, 1, 128, 200, 255},
        n \in {0, 1, 2, 3, 4, 5, 6, 7, 8, 14} }

\* The timers set from a register and read back.
TimerRoms ==
    { RomOf(<< InsX(6, 1, k), InsX(15, 1, 21), InsX(15, 1, 24), InsX(15, 2, 7),
               InsX(15, 2, 7), InsX(15, 3, 7), InsX(15, 3, 7) >>, << >>) :
        k \in {0, 1, 2, 3, 255} }

\* The keyboard instructions on the key numbered k.
KeyRoms ==
    { RomOf(<< InsX(6, 1, k), InsX(14, 1, nn), InsX(6, 2, 7), InsX(15, 2, 10),
               InsX(6, 3, 9) >>, << >>) :
        k \in {0, 5, 15}, nn \in {158, 161, 0} }

\* The index register: set, added to, pointed at a font character.
IndexRoms ==
    { RomOf(<< InsX(6, 15, f), InsX(6, x, v), InsA(10, nnn), InsX(15, x, nn) >>, << >>) :
        f \in {0, 1}, x \in {10, 15}, v \in {0, 1, 2, 5, 15, 16, 255},
        nnn \in {0, 4094, 4095}, nn \in {30, 41} }
    \cup { RomOf(<< InsX(6, 10, 2), InsX(15, 10, 30) >>, << >>) }

\* FX1E in a loop, 255 added each time round.
IndexLoopRoms ==
    { RomOf(<< InsX(6, 10, 255), InsA(10, 4095), InsX(15, 10, 30), InsA(1, ROM_START + 4) >>,
            << >>) }

\* Jumps, calls, returns and skips.
FlowRoms ==
    { RomOf(<< InsX(6, 0, v), InsX(k, 0, v2), InsA(2, ROM_START + 8), InsA(11, t),
               Ins(9, 0, 1, 0), Ins(5, 0, 1, 0), Ins(0, 0, 14, 14), Ins(0, 0, 14, 14) >>, << >>) :
        v \in {0, 7}, v2 \in {0, 7}, k \in {3, 4}, t \in {ROM_START, 4095} }
    \cup { RomOf(<< InsA(1, t) >>, << >>) : t \in {ROM_START + 4, ROM_START + 5, 4095} }

\* Subroutines three calls deep, then a call that returns at once.  The
\* subroutines are at ROM_START + 8, + 12 and + 16.
CallRoms ==
    { RomOf(<< InsA(2, ROM_START + 8), InsX(6, 1, v), InsA(2, ROM_START + 16), InsX(6, 2, v),
               InsA(2, ROM_START + 12), Ins(0, 0, 14, 14),
               InsA(2, ROM_START + 16), Ins(0, 0, 14, 14),
               Ins(0, 0, 14, 14) >>, << >>) :
        v \in {1, 119} }

\* The decimal digits of a register stored at the index register.
BcdRoms ==
    { RomOf(<< InsX(6, 1, v), InsA(10, nnn), InsX(15, 1, 51) >>, << >>) :
        v \in {0, 7, 99, 100, 128, 255}, nnn \in {768, 4093, 4094, 4095} }

\* Registers 0..X stored at the index register and loaded back, and registers
\* loaded from the font.
DumpRoms ==
    { RomOf(<< InsX(6, 0, v[1]), InsX(6, 1, v[2]), InsX(6, 2, v[3]), InsX(6, 15, v[4]),
               InsA(10, nnn), InsX(15, x, 85), InsX(15, x, 101) >>, << >>) :
        v \in { <<1, 2, 3, 4>>, <<255, 0, 9, 1>> }, nnn \in {768, 4094},
        x \in {0, 1, 2, 15} }
    \cup { RomOf(<< InsA(10, nnn), InsX(15, x, 101) >>, << >>) :
            nnn \in {FONT_START, 4090}, x \in {0, 3, 15} }

\* One instruction that the match has no arm for, or an arm that does nothing.
UnknownRoms ==
    { RomOf(<< i >>, << >>) :
        i \in { Ins(0, 1, 2, 3), Ins(0, 0, 14, 1), Ins(8, 1, 2, 8), Ins(8, 1, 2, 13),
                Ins(8, 1, 2, 15), Ins(14, 1, 0, 0), Ins(14, 1, 9, 15), Ins(15, 1, 0, 0),
                Ins(15, 1, 15, 15), Ins(15, 1, 6, 6) } }

\* The index register driven to 65534 or 65535 by FX1E (0x0FFF, 240 times 255,
\* then 239 or 240), then an instruction that addresses memory from it.
HighIndexRoms ==
    { RomOf(<< InsX(6, 10, 255), InsA(10, 4095) >>
                \o [k \in 1..240 |-> InsX(15, 10, 30)]
                \o << InsX(6, 10, v), InsX(15, 10, 30), i >>, << >>) :
        v \in {239, 240},
        i \in { InsX(15, 10, 51), InsX(15, 1, 85), InsX(15, 1, 101), Ins(13, 0, 0, 2) } }

\* An immediate added to a register, register F set before.
AddImmRoms ==
    { RomOf(<< InsX(6, 15, f), InsX(6, x, a), InsX(7, x, k) >>, << >>) :
        f \in {0, 1}, x \in {1, 15}, a \in {0, 1, 200, 255}, k \in {0, 1, 56, 255} }

\* Random bytes and the remaining instructions.
OtherRoms ==
    { RomOf(<< InsX(12, 1, nn), InsX(7, 1, 1) >>, << >>) : nn \in {0, 15, 255} }

Programs ==
    DrawRoms \cup ClearDrawRoms \cup AluRoms \cup TimerRoms \cup KeyRoms \cup IndexRoms
        \cup IndexLoopRoms \cup FlowRoms \cup OtherRoms \cup AddImmRoms
        \cup CallRoms \cup BcdRoms \cup DumpRoms \cup UnknownRoms \cup HighIndexRoms

\* are_keys_pressed: no key down, or only key 5 down
KeyStates == { [k \in 0..15 |-> FALSE], [k \in 0..15 |-> k = 5] }

\* the bytes rand::random::<u8>() is taken to return
RandBytes == {0, 90, 255}

\* ------------------------------------------------------------------------
\* The state machine
\* ------------------------------------------------------------------------
Machine == [cpu |-> cpu, display |-> display, memory |-> memory, status |-> status]

Init ==
    /\ \E rom \in Programs :
        /\ RomFits(rom)
        /\ memory = Chip8Memory(rom)
    /\ cpu = CpuNew
    /\ display = DisplayNew
    /\ status = "running"
    /\ overflow_checks \in BOOLEAN
    /\ instr = NoInstr
    /\ keys = [k \in 0..15 |-> FALSE]
    /\ old = [cpu |-> cpu, display |-> display, memory |-> memory]
    /\ older = [cpu |-> cpu, display |-> display, instr |-> NoInstr]
    /\ steps = 0

\* One pass of the frame loop: the keyboard is read and Chip8::advance is called;
\* advance takes no keyboard state.
Commit(s, fetched, are_keys_pressed) ==
    /\ cpu' = s.cpu
    /\ display' = s.display
    /\ memory' = s.memory
    /\ status' = s.status
    /\ instr' = fetched
    /\ keys' = are_keys_pressed
    /\ old' = [cpu |-> cpu, display |-> display, memory |-> memory]
    /\ older' = [cpu |-> old.cpu, display |-> old.display, instr |-> instr]
    /\ steps' = steps + 1
    /\ UNCHANGED overflow_checks

CanStep == status = "running" /\ steps < MaxSteps

\* The next instruction can be fetched, and its first nibble is this family.
Fetches(family) ==
    /\ CanStep
    /\ FetchInRange(cpu)
    /\ Fetched(cpu, memory) \div 4096 = family

\* The step itself, with the keyboard state read for it.
Advance ==
    \E are_keys_pressed \in KeyStates :
        Commit(advance(Machine, 0), Fetched(cpu, memory), are_keys_pressed)

\* A step whose fetch is outside the memory.
StepFetchFault ==
    /\ CanStep
    /\ ~FetchInRange(cpu)
    /\ \E are_keys_pressed \in KeyStates :
        Commit(advance(Machine, 0), NoInstr, are_keys_pressed)

StepSys ==
    /\ Fetches(0)
    /\ Advance

StepJump ==
    /\ Fetches(1)
    /\ Advance

StepCall ==
    /\ Fetches(2)
    /\ Advance

StepSkipEqImm ==
    /\ Fetches(3)
    /\ Advance

StepSkipNeImm ==
    /\ Fetches(4)
    /\ Advance

StepSkipEqReg ==
    /\ Fetches(5)
    /\ Advance

StepSetImm ==
    /\ Fetches(6)
    /\ Advance

StepAddImm ==
    /\ Fetches(7)
    /\ Advance

StepAlu ==
    /\ Fetches(8)
    /\ Advance

StepSkipNeReg ==
    /\ Fetches(9)
    /\ Advance

StepSetIndex ==
    /\ Fetches(10)
    /\ Advance

StepJumpOffset ==
    /\ Fetches(11)
    /\ Advance

\* The step of CXNN draws a random byte.
StepRandom ==
    /\ Fetches(12)
    /\ \E are_keys_pressed \in KeyStates, rand_value \in RandBytes :
        Commit(advance(Machine, rand_value), Fetched(cpu, memory), are_keys_pressed)

StepDraw ==
    /\ Fetches(13)
    /\ Advance

StepKeySkip ==
    /\ Fetches(14)
    /\ Advance

StepMisc ==
    /\ Fetches(15)
    /\ Advance

Next ==
    \/ StepFetchFault
    \/ StepSys
    \/ StepJump
    \/ StepCall
    \/ StepSkipEqImm
    \/ StepSkipNeImm
    \/ StepSkipEqReg
    \/ StepSetImm
    \/ StepAddImm
    \/ StepAlu
    \/ StepSkipNeReg
    \/ StepSetIndex
    \/ StepJumpOffset
    \/ StepRandom
    \/ StepDraw
    \/ StepKeySkip
    \/ StepMisc

Spec == Init /\ [][Next]_vars

\* ------------------------------------------------------------------------
\* Properties
\* ------------------------------------------------------------------------
\* The last step fetched an instruction and ran to its end.
Completed == instr # NoInstr /\ status = "running"

\* The registers before the last step.
OldReg(r) == old.cpu.registers[r]

Max(a, b) == IF a >= b THEN a ELSE b

\* Bit b of a sprite byte, b = 0 the most significant.
SpriteBit(byte, b) == (byte \div Pow2(7 - b)) % 2 = 1

\* The last step fetched DXYN; the column, row and height it was given, and the
\* sprite byte of row i.
IsDraw == instr \div 4096 = 13

DrawCol == OldReg(OpX(instr)) % SCREEN_WIDTH

DrawRow == OldReg(OpY(instr)) % SCREEN_HEIGHT

DrawN == OpN(instr)

DrawByte(i) == old.memory[old.cpu.index_register + i]

\* The sprite bytes are inside the memory.
SpriteReadable == old.cpu.index_register + DrawN - 1 <= 4095

\* The sprite is inside the grid.
SpriteInGrid == DrawCol <= 56 /\ DrawRow + DrawN <= 32 /\ SpriteReadable

\* Pixel (x, y) is under a set bit of the sprite.
SpriteCovers(x, y) ==
    /\ y >= DrawRow /\ y < DrawRow + DrawN
    /\ x >= DrawCol /\ x < DrawCol + 8
    /\ SpriteBit(DrawByte(y - DrawRow), x - DrawCol)

Pixels == (0..(SCREEN_WIDTH - 1)) \X (0..(SCREEN_HEIGHT - 1))

\* C1: a sprite draw inside the grid flips exactly the pixels under the set bits of
\* the N sprite bytes, all 8 bits of each, and leaves register F at 1 iff one of
\* the flipped pixels was on before.
C1_SpriteDrawFlipsAllBits ==
    (IsDraw /\ SpriteInGrid) =>
        /\ status = "running"
        /\ \A p \in Pixels :
            (get_pixel(display, p[1], p[2]) # get_pixel(old.display, p[1], p[2]))
                <=> SpriteCovers(p[1], p[2])
        /\ cpu.registers[15] =
            IF \E p \in Pixels : SpriteCovers(p[1], p[2]) /\ get_pixel(old.display, p[1], p[2])
            THEN 1 ELSE 0

\* C2: a sprite draw whose bytes can be read completes whatever the column, the
\* row, the height and the bytes are: no pixel outside the grid is indexed.
C2_SpriteDrawStaysInGrid ==
    (IsDraw /\ SpriteReadable) => status = "running"

\* The last two steps drew the same sprite at the same place.
DrawnTwice ==
    /\ IsDraw
    /\ older.instr = instr
    /\ older.cpu.index_register = old.cpu.index_register
    /\ older.cpu.registers[OpX(instr)] = OldReg(OpX(instr))
    /\ older.cpu.registers[OpY(instr)] = OldReg(OpY(instr))

\* C3: the second of two equal draws inside the grid restores the display of
\* before the first, and ends with register F at 1 when a pixel under a set bit
\* of the sprite was on after the first.
C3_DrawTwiceRestores ==
    (DrawnTwice /\ SpriteInGrid) =>
        /\ status = "running"
        /\ display = older.display
        /\ (\E p \in Pixels : SpriteCovers(p[1], p[2]) /\ get_pixel(old.display, p[1], p[2]))
                => cpu.registers[15] = 1

\* The last step fetched FX with this low byte.
IsMisc(nn) == instr \div 4096 = 15 /\ OpNN(instr) = nn

AnyKey == \E k \in 0..15 : keys[k]

\* C5: FX0A with no key down leaves the program counter at the instruction; with
\* a key down it stores a key that is down in register X and moves on.
C5_WaitForKeyBlocks ==
    (Completed /\ IsMisc(10)) =>
        IF AnyKey
        THEN /\ cpu.program_counter = old.cpu.program_counter + 2
             /\ cpu.registers[OpX(instr)] \in {k \in 0..15 : keys[k]}
        ELSE cpu.program_counter = old.cpu.program_counter

\* The last step fetched EX with this low byte, register X numbering a key.
IsKeySkip(nn) == instr \div 4096 = 14 /\ OpNN(instr) = nn /\ OldReg(OpX(instr)) <= 15

\* C6: EX9E moves the program counter by 4 when the key numbered register X is
\* down and by 2 when it is up; EXA1 by 4 when it is up and by 2 when it is down.
C6_KeySkips ==
    /\ (Completed /\ IsKeySkip(158)) =>
            cpu.program_counter = old.cpu.program_counter
                + (IF keys[OldReg(OpX(instr))] THEN 4 ELSE 2)
    /\ (Completed /\ IsKeySkip(161)) =>
            cpu.program_counter = old.cpu.program_counter
                + (IF keys[OldReg(OpX(instr))] THEN 2 ELSE 4)

\* The last step fetched 8XY with this low nibble.
IsAlu(n) == instr \div 4096 = 8 /\ OpN(instr) = n

\* C7: 8XY6 leaves register Y shifted right in register X and the low bit of
\* register Y in register F; 8XYE leaves register Y shifted left in register X
\* and the high bit of register Y in register F (X other than F).
C7_ShiftsSetFlag ==
    /\ (Completed /\ IsAlu(6) /\ OpX(instr) # 15) =>
            /\ cpu.registers[OpX(instr)] = OldReg(OpY(instr)) \div 2
            /\ cpu.registers[15] = OldReg(OpY(instr)) % 2
    /\ (Completed /\ IsAlu(14) /\ OpX(instr) # 15) =>
            /\ cpu.registers[OpX(instr)] = (OldReg(OpY(instr)) * 2) % 256
            /\ cpu.registers[15] = OldReg(OpY(instr)) \div 128

\* C8: FX29 leaves the index register at the font base plus 5 times register X.
C8_FontAddress ==
    (Completed /\ IsMisc(41)) =>
        cpu.index_register = FONT_START + 5 * OldReg(OpX(instr))

\* The sum FX1E forms.
IndexSum == old.cpu.index_register + OldReg(OpX(instr))

\* C9: FX1E leaves the index register at the sum of its old value and
\* register X, and register F at 1 when the sum is above 0x0FFF and as it was
\* otherwise.
C9_IndexAdd ==
    (Completed /\ IsMisc(30)) =>
        /\ cpu.index_register = IndexSum
        /\ cpu.registers[15] = IF IndexSum > 4095 THEN 1 ELSE OldReg(15)

\* C10: 8XY4 leaves register F at 1 exactly when the sum of the old registers X
\* and Y is above 255, X or Y being F or not, and at 0 otherwise; register X
\* other than F is left at the sum modulo 256.
C10_AddCarry ==
    (Completed /\ IsAlu(4)) =>
        LET sum == OldReg(OpX(instr)) + OldReg(OpY(instr))
        IN  /\ cpu.registers[15] = IF sum > 255 THEN 1 ELSE 0
            /\ OpX(instr) # 15 => cpu.registers[OpX(instr)] = sum % 256

\* 8FY4 has carried: register F is both the destination and the flag.
C10_Witness ==
    /\ Completed /\ IsAlu(4) /\ OpX(instr) = 15
    /\ OldReg(15) + OldReg(OpY(instr)) > 255
    /\ cpu.registers[15] = 1

\* C11: 8XY5 leaves register F at 1 exactly when the old register X is at least the
\* old register Y, and register X (other than F) at X - Y modulo 256; 8XY7 leaves
\* register F at 1 exactly when Y is at least X, and register X at Y - X modulo
\* 256.  Equal operands leave the flag at 1.
C11_SubBorrow ==
    /\ (Completed /\ IsAlu(5)) =>
        LET x == OldReg(OpX(instr))
            y == OldReg(OpY(instr))
        IN  /\ cpu.registers[15] = IF x >= y THEN 1 ELSE 0
            /\ OpX(instr) # 15 => cpu.registers[OpX(instr)] = (x - y + 256) % 256
    /\ (Completed /\ IsAlu(7)) =>
        LET x == OldReg(OpX(instr))
            y == OldReg(OpY(instr))
        IN  /\ cpu.registers[15] = IF y >= x THEN 1 ELSE 0
            /\ OpX(instr) # 15 => cpu.registers[OpX(instr)] = (y - x + 256) % 256

\* 8XY7 has subtracted equal, nonzero operands held in two registers.
C11_Witness ==
    /\ Completed /\ IsAlu(7) /\ OpX(instr) # OpY(instr)
    /\ OldReg(OpX(instr)) = OldReg(OpY(instr)) /\ OldReg(OpX(instr)) > 0
    /\ cpu.registers[15] = 1 /\ cpu.registers[OpX(instr)] = 0

\* The last step fetched an instruction of this family.
IsFamily(family) == instr \div 4096 = family

\* C12: 7XNN leaves register X at its old value plus NN modulo 256 and every other
\* register, register F included, as it was.
C12_AddImmediate ==
    (Completed /\ IsFamily(7)) =>
        /\ cpu.registers[OpX(instr)] = (OldReg(OpX(instr)) + OpNN(instr)) % 256
        /\ \A r \in 0..15 : r # OpX(instr) => cpu.registers[r] = OldReg(r)

\* 7XNN has wrapped past 255 with register F at 0.
C12_Witness ==
    /\ Completed /\ IsFamily(7) /\ OpX(instr) # 15
    /\ OldReg(OpX(instr)) + OpNN(instr) > 255
    /\ OldReg(15) = 0 /\ cpu.registers[15] = 0

\* The last step fetched 00EE.
IsReturn == instr = 238

\* C13: a call pushes the address after the call and jumps to NNN; a return pops
\* the newest address into the program counter; a return right after a call
\* leaves the program counter after the call and the stack as before the call.
C13_CallReturnLifo ==
    /\ (Completed /\ IsFamily(2)) =>
        /\ cpu.stack = Append(old.cpu.stack, old.cpu.program_counter + 2)
        /\ cpu.program_counter = OpNNN(instr)
    /\ (Completed /\ IsReturn) =>
        /\ Len(old.cpu.stack) > 0
        /\ cpu.program_counter = old.cpu.stack[Len(old.cpu.stack)]
        /\ cpu.stack = SubSeq(old.cpu.stack, 1, Len(old.cpu.stack) - 1)
    /\ (Completed /\ IsReturn /\ older.instr \div 4096 = 2) =>
        /\ cpu.program_counter = older.cpu.program_counter + 2
        /\ cpu.stack = older.cpu.stack

\* A return right after the third nested call, two addresses left on the stack.
C13_Witness ==
    /\ Completed /\ IsReturn /\ older.instr \div 4096 = 2
    /\ Len(older.cpu.stack) = 2 /\ Len(cpu.stack) = 2
    /\ cpu.program_counter = older.cpu.program_counter + 2

\* The index register before the last step.
OldI == old.cpu.index_register

\* C14: FX33 with the index register I at most 4093 completes and leaves the
\* hundreds, tens and ones digits of register X at I, I + 1 and I + 2, every
\* other memory cell, every register and the index register as they were.
C14_BcdStore ==
    (IsMisc(51) /\ OldI + 2 <= 4095) =>
        /\ status = "running"
        /\ \A k \in 0..2 : memory[OldI + k] \in 0..9
        /\ 100 * memory[OldI] + 10 * memory[OldI + 1] + memory[OldI + 2] = OldReg(OpX(instr))
        /\ \A a \in DOMAIN memory : a \notin OldI..(OldI + 2) => memory[a] = old.memory[a]
        /\ cpu.registers = old.cpu.registers
        /\ cpu.index_register = OldI

\* FX33 has stored three different digits at the last three memory cells.
C14_Witness ==
    /\ Completed /\ IsMisc(51) /\ OldI = 4093
    /\ memory[4093] = 1 /\ memory[4094] = 2 /\ memory[4095] = 8

\* C15: FX55 with I + X at most 4095 completes and leaves registers 0..X at
\* I..I+X, the registers and the index register as they were; FX65 leaves the
\* memory of I..I+X in registers 0..X, the memory, the registers above X and
\* the index register as they were; FX65 right after FX55 with the same X and
\* index register leaves registers 0..X as they were before the FX55.
C15_DumpLoad ==
    /\ (IsMisc(85) /\ OldI + OpX(instr) <= 4095) =>
        /\ status = "running"
        /\ \A r \in 0..OpX(instr) : memory[OldI + r] = OldReg(r)
        /\ cpu.registers = old.cpu.registers
        /\ cpu.index_register = OldI
    /\ (IsMisc(101) /\ OldI + OpX(instr) <= 4095) =>
        /\ status = "running"
        /\ \A r \in 0..15 :
            cpu.registers[r] = IF r <= OpX(instr) THEN old.memory[OldI + r] ELSE OldReg(r)
        /\ memory = old.memory
        /\ cpu.index_register = OldI
    /\ (IsMisc(101) /\ OldI + OpX(instr) <= 4095 /\ older.instr = instr - 101 + 85
            /\ older.cpu.index_register = OldI) =>
        \A r \in 0..OpX(instr) : cpu.registers[r] = older.cpu.registers[r]

\* FF65 right after FF55: all 16 registers, register 2 nonzero, stored and loaded.
C15_Witness ==
    /\ Completed /\ IsMisc(101) /\ OpX(instr) = 15 /\ older.instr = instr - 101 + 85
    /\ older.cpu.index_register = OldI
    /\ cpu.registers[2] = 3 /\ memory[OldI + 2] = 3

\* The instructions of the opcode table: 00E0 and 00EE by their low byte, 8XY_
\* with low nibble 0..7 or E, EX9E and EXA1, FX07, FX0A, FX15, FX18, FX1E, FX29,
\* FX33, FX55 and FX65, and every instruction of the other families.
InOpcodeTable(i) ==
    CASE i \div 4096 = 0 -> OpNN(i) \in {224, 238}
      [] i \div 4096 = 8 -> OpN(i) \in (0..7) \cup {14}
      [] i \div 4096 = 14 -> OpNN(i) \in {158, 161}
      [] i \div 4096 = 15 -> OpNN(i) \in {7, 10, 21, 24, 30, 41, 51, 85, 101}
      [] OTHER -> TRUE

\* C16: a step that fetches an instruction outside the opcode table panics.
C16_UnknownIsFatal ==
    (instr # NoInstr /\ ~InOpcodeTable(instr)) => status = "panicked"

\* The change of the stack's length that the last step's instruction stands for.
StackDelta == IF IsFamily(2) THEN 1 ELSE IF IsReturn THEN -1 ELSE 0

\* C17: 00EE with an empty stack panics, and every completed step leaves the
\* stack one longer (a call), one shorter (a return) or as long as it was.
C17_ReturnOnEmptyIsFatal ==
    /\ (IsReturn /\ Len(old.cpu.stack) = 0) => status = "panicked"
    /\ Completed => Len(cpu.stack) = Len(old.cpu.stack) + StackDelta

\* 00EE has panicked on a stack that earlier calls and returns had emptied.
C17_Witness ==
    /\ status = "panicked" /\ IsReturn /\ Len(old.cpu.stack) = 0
    /\ older.instr = 238 /\ Len(older.cpu.stack) = 1

\* The last step changed no memory cell outside the addresses lo..hi.
WrittenWithin(lo, hi) ==
    \A a \in DOMAIN memory : (a < lo \/ a > hi) => memory[a] = old.memory[a]

\* C18: every address of a step is the arithmetic sum, and a sum above 4095 is a
\* panic: the fetch at the program counter and the one above it; FX33 writes
\* only I..I+2, FX55 only I..I+X, and no other instruction writes; FX65 changes
\* register r only to the memory of I + r; FX33, FX55, FX65 and DXYN panic when
\* their highest address is above 4095.
C18_NoAccessBeyondMemory ==
    /\ (steps > 0 /\ old.cpu.program_counter + 1 > 4095) => status = "panicked"
    /\ IF IsMisc(51) THEN WrittenWithin(OldI, OldI + 2)
       ELSE IF IsMisc(85) THEN WrittenWithin(OldI, OldI + OpX(instr))
       ELSE memory = old.memory
    /\ (IsMisc(51) /\ OldI + 2 > 4095) => status = "panicked"
    /\ (IsMisc(85) /\ OldI + OpX(instr) > 4095) => status = "panicked"
    /\ (IsMisc(101) /\ OldI + OpX(instr) > 4095) => status = "panicked"
    /\ IsMisc(101) =>
        \A r \in 0..15 :
            cpu.registers[r] # OldReg(r) =>
                /\ r <= OpX(instr) /\ OldI + r <= 4095
                /\ cpu.registers[r] = old.memory[OldI + r]
    /\ (IsDraw /\ DrawN > 0 /\ OldI + DrawN - 1 > 4095) => status = "panicked"

\* The last step set the program counter to an odd jump, call or offset target.
OddTarget ==
    \/ (IsFamily(1) \/ IsFamily(2)) /\ OpNNN(instr) % 2 = 1
    \/ IsFamily(11) /\ (OldReg(0) + OpNNN(instr)) % 2 = 1

AllEven(stack) == \A k \in 1..Len(stack) : stack[k] % 2 = 0

\* C19 as stated: after every completed step the program counter is even.
C19_PcAlwaysEven == Completed => cpu.program_counter % 2 = 0

\* C19: a completed step that starts with an even program counter and even
\* return addresses and does not jump, call or offset to an odd target ends
\* with an even program counter and even return addresses.
C19_PcEvenUnlessOddTarget ==
    (/\ Completed
     /\ old.cpu.program_counter % 2 = 0
     /\ AllEven(old.cpu.stack)
     /\ ~OddTarget) =>
        /\ cpu.program_counter % 2 = 0
        /\ AllEven(cpu.stack)

C19_Witness ==
    /\ Completed /\ (IsFamily(3) \/ IsFamily(4))
    /\ old.cpu.program_counter % 2 = 0
    /\ cpu.program_counter = old.cpu.program_counter + 4

\* C20 as stated: 1NNN, 2NNN and BNNN leave the program counter in 0..4095, and
\* BNNN leaves it at the low 12 bits of register 0 plus NNN.
C20_JumpTruncated ==
    /\ (Completed /\ (IsFamily(1) \/ IsFamily(2) \/ IsFamily(11))) =>
        cpu.program_counter \in 0..4095
    /\ (Completed /\ IsFamily(11)) =>
        cpu.program_counter = (OldReg(0) + OpNNN(instr)) % 4096

\* C20: 1NNN and 2NNN leave the program counter at NNN, in 0..4095; BNNN leaves
\* it at register 0 plus NNN, not truncated, at most 255 + 4095.
C20_JumpTargets ==
    /\ (Completed /\ (IsFamily(1) \/ IsFamily(2))) =>
        /\ cpu.program_counter = OpNNN(instr)
        /\ cpu.program_counter \in 0..4095
    /\ (Completed /\ IsFamily(11)) =>
        /\ cpu.program_counter = OldReg(0) + OpNNN(instr)
        /\ cpu.program_counter <= 255 + 4095

C20_Witness ==
    /\ Completed /\ IsFamily(11)
    /\ OldReg(0) + OpNNN(instr) > 4095
    /\ cpu.program_counter > 4095

=============================================================================
